---- MODULE Spec2Model ----
(***************************************************************************)
(* Model of unzipper.py: the recursive .zip/.gz extractor.                 *)
(*                                                                         *)
(* A file name is a sequence of one-character strings, a path is a         *)
(* sequence of names relative to the directory /r, and the file system is  *)
(* a function from the existing paths to a content identifier ("DIR" for   *)
(* a directory).  The bytes of a file are modelled by the identifier; the  *)
(* zipfile and gzip libraries are modelled by what they do with each       *)
(* identifier (ZipValid, ZipEntries, ZipCrcFail, GzKind, GzPayload).       *)
(***************************************************************************)
EXTENDS Integers, Sequences, FiniteSets, TLC

\* ------------------------------------------------------------------ bounds
MaxFiles == 2      \* files present under /r before the first run
MaxRuns  == 2      \* calls on the same root in one behaviour of RerunSpec

\* ------------------------------------------------------------- characters
Slash      == "/"
DeleteFlag == <<"-", "-", "d", "e", "l", "e", "t", "e">>
Script     == <<"u", ".", "p", "y">>
ZipSuffix  == <<".", "z", "i", "p">>
GzSuffix   == <<".", "g", "z">>
UnzipTag   == <<"_", "u", "n", "z", "i", "p">>
Underscore == <<"_">>
Digits     == <<"0", "1", "2", "3", "4", "5", "6", "7", "8", "9">>

\* str.endswith
EndsWith(s, suf) ==
  /\ Len(s) >= Len(suf)
  /\ SubSeq(s, Len(s) - Len(suf) + 1, Len(s)) = suf

\* each_file[:-3]
StripGz(s) == SubSeq(s, 1, Len(s) - 3)

\* str(n) for n >= 0, as used by the f-string
RECURSIVE Str(_)
Str(n) == IF n < 10 THEN <<Digits[n + 1]>>
          ELSE Str(n \div 10) \o <<Digits[(n % 10) + 1]>>

\* os.path.basename: what follows the last slash
RECURSIVE Basename(_)
Basename(p) ==
  IF p = <<>> THEN <<>>
  ELSE IF p[Len(p)] = Slash THEN <<>>
  ELSE Basename(SubSeq(p, 1, Len(p) - 1)) \o <<p[Len(p)]>>

\* ------------------------------------------------------------ the names
RootR      == <<"/", "r">>              \* the directory /r
RootRSlash == <<"/", "r", "/">>         \* the same directory, trailing slash
RootF      == <<"/", "f">>              \* a regular file
RootN      == <<"/", "n">>              \* nothing there
Empty      == <<>>

N_azip  == <<"a", ".", "z", "i", "p">>
N_czip  == <<"c", ".", "z", "i", "p">>
N_nzip  == <<"n", ".", "z", "i", "p">>
N_dgz   == <<"d", ".", "g", "z">>
N_xzgz  == <<"x", ".", "z", "i", "p", ".", "g", "z">>
N_atxt  == <<"a", ".", "t", "x", "t">>
N_btxt  == <<"b", ".", "t", "x", "t">>
N_AZIP  == <<"A", ".", "Z", "I", "P">>
N_gzbak == <<"g", ".", "g", "z", ".", "b">>
N_s     == <<"s">>
N_runzip == <<"r", "_", "u", "n", "z", "i", "p">>

\* --------------------------------------------------- zipfile and gzip
\* zipfile.ZipFile(path): the container is readable
ZipValid(c) == c \in {"zA", "zN", "zCrc"}

\* the entries of a readable container, in archive order
ZipEntries(c) ==
  CASE c = "zA"   -> << <<(<<N_atxt>>), "txt">>, <<(<<N_s, N_btxt>>), "txt">> >>
    [] c = "zN"   -> << <<(<<N_nzip>>), "zA">> >>
    [] c = "zCrc" -> << <<(<<N_atxt>>), "txt">>, <<(<<N_btxt>>), "txt">> >>
    [] OTHER      -> <<>>

\* index of the entry whose CRC check fails, 0 when none does
ZipCrcFail(c) == IF c = "zCrc" THEN 2 ELSE 0

\* gzip: "ok" decompresses, "hdr" has no gzip magic (BadGzipFile, as for a
\* failed trailer check), "trunc" ends before the end-of-stream marker
\* (EOFError)
GzKind(c) ==
  CASE c \in {"gOk", "gZ"} -> "ok"
    [] c = "gTrunc"        -> "trunc"
    [] OTHER               -> "hdr"

GzPayload(c) == IF c = "gZ" THEN "zA" ELSE "txt"

\* what the output file opened with 'wb' holds when the stream fails: nothing
\* was written before a bad header, a part of the data before an early end
GzPartial(c) == IF GzKind(c) = "trunc" THEN "part" ELSE "empty"

\* ------------------------------------------------------- the file system
Parent(p) == SubSeq(p, 1, Len(p) - 1)
Name(p)   == p[Len(p)]

IsPrefix(d, p) == Len(d) <= Len(p) /\ SubSeq(p, 1, Len(d)) = d

\* os.path.exists / os.path.isdir on a path below /r
Exists(f, p) == p \in DOMAIN f
IsDirAt(f, p) == p \in DOMAIN f /\ f[p] = "DIR"

\* the entries of directory d, as os.scandir lists them
ListFiles(f, d) ==
  {Name(p) : p \in {q \in DOMAIN f : Len(q) = Len(d) + 1 /\ IsPrefix(d, q) /\ f[q] # "DIR"}}
ListDirs(f, d) ==
  {q \in DOMAIN f : Len(q) = Len(d) + 1 /\ IsPrefix(d, q) /\ f[q] = "DIR"}

\* open(p, 'wb') ... write ... close
FsWrite(f, p, c) == [q \in DOMAIN f \cup {p} |-> IF q = p THEN c ELSE f[q]]

\* os.makedirs(parent, exist_ok) as zipfile does before writing a member
FsMakedirs(f, p) ==
  LET new == {SubSeq(p, 1, k) : k \in 1..(Len(p) - 1)} \ DOMAIN f
  IN  [q \in DOMAIN f \cup new |-> IF q \in new THEN "DIR" ELSE f[q]]

\* os.mkdir
FsMkdir(f, p) == [q \in DOMAIN f \cup {p} |-> IF q = p THEN "DIR" ELSE f[q]]

\* os.remove
FsRemove(f, p) == [q \in DOMAIN f \ {p} |-> f[q]]

\* ZipFile.extractall(dest): members in order; a member whose CRC check fails
\* leaves its (empty) file behind and stops the extraction with BadZipFile
RECURSIVE ExtractEntries(_, _, _, _, _)
ExtractEntries(f, dest, entries, i, bad) ==
  IF i > Len(entries) THEN f
  ELSE LET target == dest \o entries[i][1]
           g == FsWrite(FsMakedirs(f, target), target,
                        IF i = bad THEN "empty" ELSE entries[i][2])
       IN  IF i = bad THEN g ELSE ExtractEntries(g, dest, entries, i + 1, bad)

\* the files that may lie under /r before the first run: archives of each
\* kind, in /r, in a subdirectory s and in the output directory r_unzip of an
\* earlier run, and files with other names
Pool ==
  { <<(<<N_azip>>), "zA">>, <<(<<N_azip>>), "zN">>, <<(<<N_azip>>), "zBad">>,
    <<(<<N_azip>>), "zCrc">>,
    <<(<<N_dgz>>), "gOk">>, <<(<<N_dgz>>), "gHdr">>, <<(<<N_dgz>>), "gTrunc">>,
    <<(<<N_xzgz>>), "gZ">>,
    <<(<<N_s, N_czip>>), "zN">>,
    <<(<<N_runzip, N_nzip>>), "zA">>,
    <<(<<N_atxt>>), "txt">>, <<(<<N_AZIP>>), "zA">>, <<(<<N_gzbak>>), "gOk">> }

\* a directory /r holding the chosen files and their directories
MkFs(S) ==
  LET files == {e[1] : e \in S}
      dirs  == {<<>>} \cup {Parent(p) : p \in files}
  IN  [q \in files \cup dirs |->
         IF q \in dirs THEN "DIR" ELSE (CHOOSE e \in S : e[1] = q)[2]]

InitialFs ==
  { MkFs(S) : S \in {T \in SUBSET Pool :
                        /\ Cardinality(T) <= MaxFiles
                        /\ \A e1, e2 \in T : e1[1] = e2[1] => e1 = e2} }

\* mutant of IsDir: os.path.exists in place of os.path.isdir
IsDirOrFile(r) == r \in {RootR, RootRSlash, RootF}

\* os.path.isdir(root) for the root argument: /r is the only directory
IsDir(r) == r \in {RootR, RootRSlash}

\* ------------------------------------------------------------- the state
VARIABLES
  fs,                   \* the tree below /r
  pc,                   \* "idle", "naming", "walk", "delete", "returned", "raised"
  exc,                  \* the exception that left main, "" when none
  root,                 \* main's argument
  DELETE_SOURCE_FILES,  \* main's argument
  final_destination,    \* path of the output directory below /r
  name_counter,
  stack,                \* os.walk: directories still to list, innermost first
  dirpath,              \* os.walk: the directory being processed
  filenames,            \* os.walk: files of dirpath not yet visited
  each_file,            \* the file of the current iteration
  zip_success,
  gzip_success,
  stdout,               \* the lines printed by the current run
  argv,                 \* sys.argv of the current run, <<>> when main is called
  runs,                 \* invocations so far
  fs0,                  \* history: the tree when the current run started
  ops,                  \* history: the file operations of the current run
  prior                 \* history: output directories created by earlier runs

vars == <<fs, pc, exc, root, DELETE_SOURCE_FILES, final_destination,
          name_counter, stack, dirpath, filenames, each_file, zip_success,
          gzip_success, stdout, argv, runs, fs0, ops, prior>>

walkvars == <<stack, dirpath, filenames>>
locals   == <<each_file, zip_success, gzip_success>>

Init ==
  /\ fs \in InitialFs
  /\ pc = "idle"
  /\ exc = ""
  /\ root = Empty
  /\ DELETE_SOURCE_FILES = FALSE
  /\ final_destination = <<>>
  /\ name_counter = 1
  /\ stack = <<>>
  /\ dirpath = <<>>
  /\ filenames = {}
  /\ each_file = <<>>
  /\ zip_success = FALSE
  /\ gzip_success = FALSE
  /\ stdout = <<>>
  /\ argv = <<>>
  /\ runs = 0
  /\ fs0 = fs
  /\ ops = <<>>
  /\ prior = {}

\* ------------------------------------------------------------ main (87-92)
\* base_folder_name (line 33)
base_folder_name == Basename(root) \o UnzipTag

\* main(r, d), up to the first test of the naming loop
Start(r, d, av) ==
  /\ runs' = runs + 1
  /\ argv' = av
  /\ root' = r
  /\ DELETE_SOURCE_FILES' = d
  /\ fs0' = fs
  /\ ops' = <<>>
  /\ prior' = prior \cup {ops[i][2] : i \in {j \in 1..Len(ops) : ops[j][1] = "mkdir"}}
  /\ name_counter' = 1
  /\ stack' = <<>>
  /\ dirpath' = <<>>
  /\ filenames' = {}
  /\ each_file' = <<>>
  /\ zip_success' = FALSE
  /\ gzip_success' = FALSE
  /\ UNCHANGED fs
  /\ IF r = Empty
        THEN /\ pc' = "raised"
             /\ exc' = "ValueError"
             /\ stdout' = <<>>
             /\ final_destination' = <<>>
     ELSE IF ~IsDir(r)
        THEN /\ pc' = "raised"
             /\ exc' = "NotADirectoryError"
             /\ stdout' = <<>>
             /\ final_destination' = <<>>
     ELSE    /\ pc' = "naming"
             /\ exc' = ""
             /\ stdout' = << <<"Root directory:", <<>> >> >>
             /\ final_destination' = <<Basename(r) \o UnzipTag>>

\* the arguments a caller passes to main
Roots == {Empty, RootR, RootRSlash, RootF, RootN}

Main == pc = "idle" /\ \E r \in Roots, d \in BOOLEAN : Start(r, d, <<>>)

\* ------------------------------------------------------ __main__ (94-101)
CliDelete(av) == \E i \in 1..Len(av) : av[i] = DeleteFlag

CliRoot(av) ==
  IF Len(av) > 1
    THEN (IF av[2] # DeleteFlag THEN av[2] ELSE Empty)
    ELSE Empty

\* the command lines: the script name and up to two arguments
Args  == {RootR, DeleteFlag}
Argvs == {<<Script>>} \cup {<<Script, a>> : a \in Args}
           \cup {<<Script, a, b>> : a \in Args, b \in Args}

Cli == pc = "idle" /\ \E av \in Argvs : Start(CliRoot(av), CliDelete(av), av)

\* main is called once more with the same arguments, the outputs of the
\* earlier calls left in place
Again ==
  /\ pc \in {"returned", "raised"}
  /\ runs < MaxRuns
  /\ Start(root, DELETE_SOURCE_FILES, <<>>)

\* ------------------------------------------- parse_root_directory (27-85)
\* mutant of NameTaken: the counter is incremented before it is used
NameTakenIncrementFirst ==
  /\ pc = "naming"
  /\ Exists(fs, final_destination)
  /\ final_destination' = <<base_folder_name \o Underscore \o Str(name_counter + 1)>>
  /\ name_counter' = name_counter + 1
  /\ UNCHANGED <<fs, pc, exc, root, DELETE_SOURCE_FILES, walkvars, locals,
                 stdout, argv, runs, fs0, ops, prior>>

\* lines 38-40: one turn of the naming loop
NameTaken ==
  /\ pc = "naming"
  /\ Exists(fs, final_destination)
  /\ final_destination' = <<base_folder_name \o Underscore \o Str(name_counter)>>
  /\ name_counter' = name_counter + 1
  /\ UNCHANGED <<fs, pc, exc, root, DELETE_SOURCE_FILES, walkvars, locals,
                 stdout, argv, runs, fs0, ops, prior>>

\* lines 43-44, 50: the directory is created and os.walk(root) starts
MkdirOk ==
  /\ pc = "naming"
  /\ ~Exists(fs, final_destination)
  /\ fs' = FsMkdir(fs, final_destination)
  /\ ops' = Append(ops, <<"mkdir", final_destination>>)
  /\ pc' = "walk"
  /\ stack' = << {<<>>} >>
  /\ dirpath' = <<>>
  /\ filenames' = {}
  /\ UNCHANGED <<exc, root, DELETE_SOURCE_FILES, final_destination,
                 name_counter, locals, stdout, argv, runs, fs0, prior>>

\* mutant of MkdirFail: the handler prints but does not return
MkdirFailNoReturn ==
  /\ pc = "naming"
  /\ ~Exists(fs, final_destination)
  /\ stdout' = Append(stdout, <<"Exception occurred while creating the folder:",
                                final_destination>>)
  /\ pc' = "walk"
  /\ stack' = << {<<>>} >>
  /\ dirpath' = <<>>
  /\ filenames' = {}
  /\ UNCHANGED <<fs, exc, root, DELETE_SOURCE_FILES, final_destination,
                 name_counter, locals, argv, runs, fs0, ops, prior>>

\* lines 45-47: os.mkdir raises (permissions, a race, a full disk)
MkdirFail ==
  /\ pc = "naming"
  /\ ~Exists(fs, final_destination)
  /\ stdout' = Append(stdout, <<"Exception occurred while creating the folder:",
                                final_destination>>)
  /\ pc' = "returned"
  /\ UNCHANGED <<fs, exc, root, DELETE_SOURCE_FILES, final_destination,
                 name_counter, walkvars, locals, argv, runs, fs0, ops, prior>>

\* line 50, os.walk top-down: the next directory is listed when it is
\* reached.  scandir's order is unspecified: the order among the pending
\* directories of one level is resolved when one is taken.
WalkDir ==
  /\ pc = "walk"
  /\ filenames = {}
  /\ \E k \in 1..Len(stack) :
       /\ stack[k] # {}
       /\ \A j \in 1..(k - 1) : stack[j] = {}
       /\ \E d \in stack[k] :
            /\ dirpath' = d
            /\ filenames' = ListFiles(fs, d)
            /\ stack' = <<ListDirs(fs, d), stack[k] \ {d}>>
                           \o SubSeq(stack, k + 1, Len(stack))
  /\ UNCHANGED <<fs, pc, exc, root, DELETE_SOURCE_FILES, final_destination,
                 name_counter, locals, stdout, argv, runs, fs0, ops, prior>>

\* line 50: the walk is exhausted and parse_root_directory returns
WalkEnd ==
  /\ pc = "walk"
  /\ filenames = {}
  /\ \A k \in 1..Len(stack) : stack[k] = {}
  /\ pc' = "returned"
  /\ UNCHANGED <<fs, exc, root, DELETE_SOURCE_FILES, final_destination,
                 name_counter, walkvars, locals, stdout, argv, runs, fs0, ops,
                 prior>>

\* mutant of Dispatch: `suffix in name` in place of name.endswith(suffix)
Contains(s, sub) ==
  \E i \in 1..(Len(s) - Len(sub) + 1) : SubSeq(s, i, i + Len(sub) - 1) = sub

DispatchContains(name) ==
  IF Contains(name, ZipSuffix) THEN "zip"
  ELSE IF Contains(name, GzSuffix) THEN "gz"
  ELSE "other"

\* lines 59, 70: the if/elif on the name's suffix
Dispatch(name) ==
  IF EndsWith(name, ZipSuffix) THEN "zip"
  ELSE IF EndsWith(name, GzSuffix) THEN "gz"
  ELSE "other"

\* line 52
file_path == dirpath \o <<each_file>>

\* lines 51-56: the next file of the listing is taken
Take(f) ==
  /\ pc = "walk"
  /\ f \in filenames
  /\ filenames' = filenames \ {f}
  /\ each_file' = f
  /\ UNCHANGED <<root, DELETE_SOURCE_FILES, final_destination, name_counter,
                 stack, dirpath, argv, runs, fs0, prior>>

\* lines 59-65: a .zip file whose members are all extracted
UnzipZip(f) ==
  LET path == dirpath \o <<f>>
      c    == fs[path]
  IN  /\ Take(f)
      /\ Dispatch(f) = "zip"
      /\ ZipValid(c) /\ ZipCrcFail(c) = 0
      /\ fs' = ExtractEntries(fs, final_destination, ZipEntries(c), 1, 0)
      /\ stdout' = stdout \o << <<"Unzipping .zip file:", path>>,
                                 <<"Unzipped:", <<f>> >> >>
      /\ ops' = ops \o << <<"open", path>>, <<"done", path>> >>
      /\ zip_success' = TRUE
      /\ gzip_success' = FALSE
      /\ pc' = "delete"
      /\ exc' = exc

\* lines 59-63, 66-67: BadZipFile, from the constructor (nothing is
\* written) or from a member's CRC check (the members up to it are written)
BadZip(f) ==
  LET path == dirpath \o <<f>>
      c    == fs[path]
  IN  /\ Take(f)
      /\ Dispatch(f) = "zip"
      /\ ~(ZipValid(c) /\ ZipCrcFail(c) = 0)
      /\ fs' = IF ZipValid(c)
                 THEN ExtractEntries(fs, final_destination, ZipEntries(c), 1,
                                     ZipCrcFail(c))
                 ELSE fs
      /\ stdout' = stdout \o << <<"Unzipping .zip file:", path>>,
                                 <<"Bad zip file:", <<f>> >> >>
      /\ ops' = Append(ops, <<"open", path>>)
      /\ zip_success' = FALSE
      /\ gzip_success' = FALSE
      /\ pc' = "delete"
      /\ exc' = exc

\* lines 70-78: a .gz file that decompresses
UnzipGz(f) ==
  LET path == dirpath \o <<f>>
      c    == fs[path]
  IN  /\ Take(f)
      /\ Dispatch(f) = "gz"
      /\ GzKind(c) = "ok"
      /\ fs' = FsWrite(fs, final_destination \o <<StripGz(f)>>, GzPayload(c))
      /\ stdout' = stdout \o << <<"Unzipping .gz file:", path>>,
                                 <<"Unzipped:", <<f>> >> >>
      /\ ops' = ops \o << <<"open", path>>, <<"done", path>> >>
      /\ zip_success' = FALSE
      /\ gzip_success' = TRUE
      /\ pc' = "delete"
      /\ exc' = exc

\* lines 70-76, 79-80: BadGzipFile (no gzip magic);
\* the output file was opened before the first read
BadGz(f) ==
  LET path == dirpath \o <<f>>
      c    == fs[path]
  IN  /\ Take(f)
      /\ Dispatch(f) = "gz"
      /\ GzKind(c) = "hdr"
      /\ fs' = FsWrite(fs, final_destination \o <<StripGz(f)>>, GzPartial(c))
      /\ stdout' = stdout \o << <<"Unzipping .gz file:", path>>,
                                 <<"Bad gzip file:", <<f>> >> >>
      /\ ops' = Append(ops, <<"open", path>>)
      /\ zip_success' = FALSE
      /\ gzip_success' = FALSE
      /\ pc' = "delete"
      /\ exc' = exc

\* lines 70-76: the stream ends before its end-of-stream marker; gzip raises
\* EOFError, which line 79 does not catch, and the exception leaves main
GzError(f) ==
  LET path == dirpath \o <<f>>
      c    == fs[path]
  IN  /\ Take(f)
      /\ Dispatch(f) = "gz"
      /\ GzKind(c) = "trunc"
      /\ fs' = FsWrite(fs, final_destination \o <<StripGz(f)>>, GzPartial(c))
      /\ stdout' = Append(stdout, <<"Unzipping .gz file:", path>>)
      /\ ops' = Append(ops, <<"open", path>>)
      /\ zip_success' = FALSE
      /\ gzip_success' = FALSE
      /\ pc' = "raised"
      /\ exc' = "EOFError"

\* lines 55-56, 59, 70: neither suffix, nothing is attempted
OtherFile(f) ==
  /\ Take(f)
  /\ Dispatch(f) = "other"
  /\ zip_success' = FALSE
  /\ gzip_success' = FALSE
  /\ pc' = "delete"
  /\ UNCHANGED <<fs, exc, stdout, ops>>

\* mutant of ShouldDelete: the success flags are not consulted
ShouldDeleteAnyFile == DELETE_SOURCE_FILES

\* mutant of ShouldDelete: `or` in place of `and`
ShouldDeleteOr == DELETE_SOURCE_FILES \/ (gzip_success \/ zip_success)

\* line 83
ShouldDelete == DELETE_SOURCE_FILES /\ (gzip_success \/ zip_success)

\* lines 83-85
DeleteSource ==
  /\ pc = "delete"
  /\ ShouldDelete
  /\ fs' = FsRemove(fs, file_path)
  /\ stdout' = Append(stdout, <<"Deleted source file:", file_path>>)
  /\ ops' = Append(ops, <<"remove", file_path>>)
  /\ pc' = "walk"
  /\ UNCHANGED <<exc, root, DELETE_SOURCE_FILES, final_destination,
                 name_counter, walkvars, locals, argv, runs, fs0, prior>>

\* line 83, condition false: on to the next file
KeepSource ==
  /\ pc = "delete"
  /\ ~ShouldDelete
  /\ pc' = "walk"
  /\ UNCHANGED <<fs, exc, root, DELETE_SOURCE_FILES, final_destination,
                 name_counter, walkvars, locals, stdout, argv, runs, fs0, ops,
                 prior>>

\* the steps of one call, without the calls themselves
RunStep ==
  \/ NameTaken
  \/ MkdirOk
  \/ MkdirFail
  \/ WalkDir
  \/ WalkEnd
  \/ \E f \in filenames : UnzipZip(f)
  \/ \E f \in filenames : BadZip(f)
  \/ \E f \in filenames : UnzipGz(f)
  \/ \E f \in filenames : BadGz(f)
  \/ \E f \in filenames : GzError(f)
  \/ \E f \in filenames : OtherFile(f)
  \/ DeleteSource
  \/ KeepSource

Next ==
  \/ Main
  \/ Cli
  \/ RunStep

Spec == Init /\ [][Next]_vars

\* a call, then the same call again
NextRerun ==
  \/ Next
  \/ Again

RerunSpec == Init /\ [][NextRerun]_vars

\* a started call keeps running (single thread, nothing suspends it)
FairSpec == Init /\ [][Next]_vars /\ WF_vars(RunStep)

\* --------------------------------------------------------------- history
OpsOf(kind) == {ops[i][2] : i \in {j \in 1..Len(ops) : ops[j][1] = kind}}
Opened  == OpsOf("open")      \* archives whose extraction was attempted
Done    == OpsOf("done")      \* archives whose extraction succeeded
Removed == OpsOf("remove")    \* files given to os.remove
Printed(tag) == {stdout[i][2] : i \in {j \in 1..Len(stdout) : stdout[j][1] = tag}}

IsArchiveName(n) == EndsWith(n, ZipSuffix) \/ EndsWith(n, GzSuffix)
FilesOf(f) == {p \in DOMAIN f : f[p] # "DIR"}

\* sanity of the model: every path's parent is a directory
FsWellFormed ==
  \A p \in DOMAIN fs : p # <<>> => IsDirAt(fs, Parent(p))

\* ---------------------------------------------------------------- claims

\* C1: a source file is deleted during a run exactly if the flag is set and
\* the extraction of that file succeeded: only successfully extracted files
\* are removed; with the flag set every successfully extracted file is
\* removed as soon as its iteration is over; without the flag every path that
\* existed before the run still exists; a file whose extraction failed still
\* exists, whatever the flag is.
C1_DeleteIffFlagAndSuccess ==
  /\ Removed \subseteq Done
  /\ \A p \in Removed : DELETE_SOURCE_FILES
  /\ (DELETE_SOURCE_FILES /\ pc # "delete") => Done \subseteq Removed
  /\ ~DELETE_SOURCE_FILES => \A p \in DOMAIN fs0 : p \in DOMAIN fs
  /\ \A p \in Opened \ Done : p \in DOMAIN fs

\* a finished run with the flag set in which one archive was extracted and
\* removed and another failed and was kept
C1_Witness ==
  /\ pc = "returned"
  /\ DELETE_SOURCE_FILES
  /\ \E p \in Removed : p \notin DOMAIN fs
  /\ \E p \in Opened \ Done : p \in DOMAIN fs

\* C2: main with an empty root, a missing path or a regular file raises
\* before any side effect: nothing was created, extracted, deleted or
\* printed, and the tree is the one the call found.
C2_InvalidRootNoSideEffect ==
  (runs > 0 /\ (root = Empty \/ root = RootN \/ root = RootF)) =>
     /\ pc = "raised"
     /\ exc \in {"ValueError", "NotADirectoryError"}
     /\ fs = fs0
     /\ ops = <<>>
     /\ stdout = <<>>

\* main was called with the path of a regular file, under a tree with files
C2_Witness ==
  /\ pc = "raised"
  /\ exc = "NotADirectoryError"
  /\ root = RootF
  /\ argv = <<>>
  /\ \E p \in FilesOf(fs) : IsArchiveName(Name(p))

\* C3 (as claimed): a per-file extraction failure is never fatal, no
\* exception leaves a run whose walk has started.
C3_NoExceptionEscapesWalk ==
  Opened # {} => pc # "raised"

\* C4: the output directory a run creates did not exist before the run; it is
\* <basename(root)>_unzip if that name was unused, else the name with the
\* smallest suffix _N, N >= 1, that was unused; and it is none of the output
\* directories of the earlier runs.
OutCandidate(n) ==
  IF n = 0 THEN <<Basename(root) \o UnzipTag>>
  ELSE <<Basename(root) \o UnzipTag \o <<"_">> \o Str(n)>>

C4_FreshSmallestName ==
  OpsOf("mkdir") # {} =>
     /\ OpsOf("mkdir") = {final_destination}
     /\ final_destination \notin DOMAIN fs0
     /\ final_destination \notin prior
     /\ IsDirAt(fs, final_destination)
     /\ \E n \in 0..Cardinality(DOMAIN fs0) :
          /\ final_destination = OutCandidate(n)
          /\ \A m \in 0..(n - 1) : OutCandidate(m) \in DOMAIN fs0

\* the second run on /r finds r_unzip, made by the first, and creates r_unzip_1
C4_Witness ==
  /\ runs = 2
  /\ pc = "returned"
  /\ root = RootR
  /\ prior = {OutCandidate(0)}
  /\ final_destination = OutCandidate(1)
  /\ IsDirAt(fs, OutCandidate(0)) /\ IsDirAt(fs, OutCandidate(1))

\* C5 (as claimed): with --delete before or after the directory, main runs
\* with root = the directory and the deletion flag set.
C5_FlagBeforeOrAfter ==
  argv \in {<<Script, RootR, DeleteFlag>>, <<Script, DeleteFlag, RootR>>} =>
     /\ root = RootR
     /\ DELETE_SOURCE_FILES
     /\ pc # "raised"

\* C6: a file whose name ends neither in .zip nor in .gz is never opened for
\* extraction and never removed, it keeps its content, and a run that opened
\* no archive adds nothing but the output directory.
C6_OtherSuffixUntouched ==
  /\ \A p \in Opened \cup Done \cup Removed : IsArchiveName(Name(p))
  /\ \A p \in FilesOf(fs0) :
        ~IsArchiveName(Name(p)) => (p \in DOMAIN fs /\ fs[p] = fs0[p])
  /\ (Opened = {} /\ OpsOf("mkdir") # {}) => fs = FsMkdir(fs0, final_destination)

\* a finished run with the flag set that extracted an archive next to a file
\* with an upper-case or inner archive suffix
C6_Witness ==
  /\ pc = "returned"
  /\ DELETE_SOURCE_FILES
  /\ Removed # {}
  /\ \E p \in FilesOf(fs) : Name(p) \in {N_AZIP, N_gzbak} /\ p \in DOMAIN fs0

\* C7: when os.mkdir fails the failure is printed and the call returns at
\* once: nothing is walked, extracted or deleted and the tree is unchanged.
MkdirFailed == Printed("Exception occurred while creating the folder:") # {}

C7_MkdirFailureAborts ==
  MkdirFailed =>
     /\ pc = "returned"
     /\ fs = fs0
     /\ ops = <<>>
     /\ stack = <<>>
     /\ stdout[Len(stdout)][1] = "Exception occurred while creating the folder:"

\* the directory could not be created although archives wait under the root
C7_Witness ==
  /\ MkdirFailed
  /\ pc = "returned"
  /\ DELETE_SOURCE_FILES
  /\ \E p \in FilesOf(fs) : Dispatch(Name(p)) = "zip" /\ ZipValid(fs[p])

\* C8 (as claimed): no file below the output directory of the run is opened
\* as an archive during the run.
C8_OutputNeverReprocessed ==
  \A p \in Opened : ~IsPrefix(final_destination, p)

\* C9: the output directory is created before anything else; a file's
\* extraction is finished before anything else happens; a file is removed
\* only right after its own successful extraction, and with the flag set the
\* removal comes before the next file is opened.
C9_Ordering ==
  /\ ops # <<>> => ops[1][1] = "mkdir"
  /\ \A i \in 2..Len(ops) : ops[i][1] # "mkdir"
  /\ \A i \in 1..Len(ops) :
        /\ ops[i][1] = "done" => (i > 1 /\ ops[i - 1] = <<"open", ops[i][2]>>)
        /\ ops[i][1] = "remove" => (i > 1 /\ ops[i - 1] = <<"done", ops[i][2]>>)
        /\ (DELETE_SOURCE_FILES /\ ops[i][1] = "done" /\ i < Len(ops)) =>
              ops[i + 1] = <<"remove", ops[i][2]>>
  /\ pc = "delete" => (ShouldDelete <=> (DELETE_SOURCE_FILES /\ ops[Len(ops)] = <<"done", file_path>>))

\* two files were extracted and removed, one after the other
C9_Witness ==
  /\ Len(ops) >= 7
  /\ ops[2][1] = "open" /\ ops[3][1] = "done" /\ ops[4][1] = "remove"
  /\ ops[5][1] = "open" /\ ops[6][1] = "done" /\ ops[7][1] = "remove"
  /\ ops[5][2] # ops[2][2]

\* C10 (as claimed): a call whose root is a directory eventually returns
\* after it processed all the files the walk discovered; as a property of
\* finite runs: such a call has returned or still has a step to take.
C10_ReturnsOrStillRuns ==
  (runs > 0 /\ IsDir(root)) => (pc = "returned" \/ ENABLED RunStep)

\* the same as a temporal property of FairSpec
EventuallyReturns == (pc = "naming") ~> (pc = "returned")

\* what does hold under FairSpec: every call ends, by returning or by raising
EventuallyEnds == (pc = "naming") ~> (pc \in {"returned", "raised"})

====
